---- MODULE Spec2Model ----
(***************************************************************************)
(* Pattern-detection engine of the design-tree inspector.                  *)
(*                                                                         *)
(*   - utils/componentDetection.ts : convertToOptimizedStructure and the   *)
(*     exact-signature detector detectComponents                           *)
(*   - utils/groupingComponent.ts  : the similarity grouper                *)
(*     groupSimilarNodes with its scorer, feature extractor and variation  *)
(*     analyser                                                            *)
(*                                                                         *)
(* A Node is a record holding the properties that are set; its children    *)
(* field is the sequence of its child Nodes (nested), or the empty         *)
(* sequence in a nodeMap entry.  A JavaScript                              *)
(* Map is a sequence of entries in insertion order.  Strings that the code *)
(* sorts are sequences of UTF-16 code units; scores are exact rationals    *)
(* [n, d] where the code computes with IEEE doubles.                       *)
(***************************************************************************)
EXTENDS Integers, Sequences, FiniteSets, TLC

VARIABLES
    pc,         \* position of the run: which calls have returned
    root,       \* the tree snapshot handed to the engine (mockData)
    nodeMap,    \* Map<string, Node>: node data, children emptied
    treeData,   \* Map<string, TreeNode>: id -> ordered child ids
    candidates, \* the components Map of detectComponents before filtering
    detected,   \* the Map returned by detectComponents
    nodes,      \* the flat Node[] handed to groupSimilarNodes
    groups,     \* NodeGroup[] returned by the first groupSimilarNodes call
    groups2,    \* NodeGroup[] returned by a second call on the same nodes
    sim,        \* scores returned by calculateSimilarity for a pair
    selectedId, \* App: the id of the selected node, or null
    components  \* App: the Map<string, string[]> handed to the tree view

vars ==
    <<pc, root, nodeMap, treeData, candidates, detected, nodes, groups, groups2, sim,
      selectedId, components>>

----------------------------------------------------------------------------
(* Bounds of the explored inputs *)

MaxNodes == 7

MaxSigNodes == 5

MaxEngineNodes == 6
\* the largest number of nodes of each of the two trees of a scored pair
MaxSimNodes == 4
\* the largest length of a node list handed to groupSimilarNodes
MaxGroupNodes == 3
\* the largest number of nodes of a tree whose maps are handed over directly
MaxEdgeNodes == 4
\* the largest number of children of a node scored against its copy
MaxTwinChildren == 3
\* the largest length of a list of Buttons handed to groupSimilarNodes
MaxButtonNodes == 3
\* the largest length of a list of cards and other nodes handed to
\* groupSimilarNodes
MaxCardNodes == 3
\* the largest number of nodes of the mock data the application is mounted on
MaxAppNodes == 3
\* the largest length of a text typed into a field of the inspector
MaxTextLen == 2
\* the largest number of nodes of the map handleUpdateNode is called on
MaxUpdateNodes == 2
\* the largest number of nodes of each of the two trees of a grouped pair
MaxSeedNodes == 5
\* the largest number of children of each of the two nodes of a scored pair
MaxUnitChildren == 1

----------------------------------------------------------------------------
(* JavaScript values *)

undefined == "undefined"

\* node ids are numbered from 1: 0 stands for the empty string and for null,
\* the two falsy values an id variable may hold
NoId == 0

\* truthiness of an optional string property
Truthy(v) == v # undefined /\ v # ""

\* node[prop]: a property that is not set reads as undefined
Get(node, prop) == IF prop \in DOMAIN node THEN node[prop] ELSE undefined

includes(seq, x) == \E i \in 1..Len(seq) : seq[i] = x

Max2(a, b) == IF a >= b THEN a ELSE b

Min2(a, b) == IF a <= b THEN a ELSE b

Abs(a) == IF a >= 0 THEN a ELSE 0 - a

RECURSIVE Flat(_)
Flat(seqs) ==
    IF seqs = <<>> THEN <<>> ELSE Head(seqs) \o Flat(Tail(seqs))

----------------------------------------------------------------------------
(* Strings as sequences of UTF-16 code units (template literals, sort, join) *)

RECURSIVE NumberToString(_)
NumberToString(n) ==
    IF n < 10 THEN <<48 + n>>
    ELSE NumberToString(n \div 10) \o <<48 + (n % 10)>>

TypeToString(t) ==
    CASE t = "Div" -> <<68, 105, 118>>
      [] t = "Button" -> <<66, 117, 116, 116, 111, 110>>
      [] t = "Input" -> <<73, 110, 112, 117, 116>>
      [] t = "Image" -> <<73, 109, 97, 103, 101>>

\* s sorts strictly before t under Array.prototype.sort's default comparison
StringLess(s, t) ==
    \/ \E i \in 1..Min2(Len(s), Len(t)) :
          /\ s[i] < t[i]
          /\ \A j \in 1..(i - 1) : s[j] = t[j]
    \/ /\ Len(s) < Len(t)
       /\ \A j \in 1..Len(s) : s[j] = t[j]

RECURSIVE sort(_)
sort(strs) ==
    IF Len(strs) <= 1 THEN strs
    ELSE LET done == sort(SubSeq(strs, 1, Len(strs) - 1))
             s == strs[Len(strs)]
             k == Cardinality({i \in 1..Len(done) : ~StringLess(s, done[i])})
         IN  SubSeq(done, 1, k) \o <<s>> \o SubSeq(done, k + 1, Len(done))

RECURSIVE join(_, _)
join(strs, sep) ==
    IF strs = <<>> THEN <<>>
    ELSE IF Len(strs) = 1 THEN strs[1]
    ELSE strs[1] \o sep \o join(Tail(strs), sep)

----------------------------------------------------------------------------
(* Map<K, V> as a sequence of entries in insertion order *)

MapHas(m, id) == \E i \in 1..Len(m) : m[i].id = id

KeysIn(m) == {m[i].id : i \in 1..Len(m)}

MapGet(m, id) == m[CHOOSE i \in 1..Len(m) : m[i].id = id]

MapSet(m, entry) ==
    IF MapHas(m, entry.id)
    THEN [i \in 1..Len(m) |-> IF m[i].id = entry.id THEN entry ELSE m[i]]
    ELSE Append(m, entry)

RECURSIVE MapSetAll(_, _)
MapSetAll(m, entries) ==
    IF entries = <<>> THEN m
    ELSE MapSetAll(MapSet(m, Head(entries)), Tail(entries))

----------------------------------------------------------------------------
(* utils/componentDetection.ts *)

\* the nodes of a nested tree in the order traverse() visits them
RECURSIVE traverse(_)
traverse(node) ==
    <<node>> \o Flat([i \in 1..Len(node.children) |-> traverse(node.children[i])])

\* the two maps with the child ids of treeData listed last child first
convertToOptimizedStructure_reversed(mockData) ==
    LET visited == traverse(mockData)
    IN  [nodeMap |->
            MapSetAll(<<>>, [i \in 1..Len(visited) |->
                [visited[i] EXCEPT !.children = <<>>]]),
         treeData |->
            MapSetAll(<<>>, [i \in 1..Len(visited) |->
                [id |-> visited[i].id,
                 children |-> [k \in 1..Len(visited[i].children) |->
                                  visited[i].children[
                                      Len(visited[i].children) + 1 - k].id]]])]

convertToOptimizedStructure(mockData) ==
    LET visited == traverse(mockData)
    IN  [nodeMap |->
            MapSetAll(<<>>, [i \in 1..Len(visited) |->
                [visited[i] EXCEPT !.children = <<>>]]),
         treeData |->
            MapSetAll(<<>>, [i \in 1..Len(visited) |->
                [id |-> visited[i].id,
                 children |-> [k \in 1..Len(visited[i].children) |->
                                  visited[i].children[k].id]]])]

RECURSIVE getAllDescendants(_, _)
getAllDescendants(td, nodeId) ==
    IF MapHas(td, nodeId)
    THEN LET ch == MapGet(td, nodeId).children
         IN  Flat([i \in 1..Len(ch) |-> <<ch[i]>> \o getAllDescendants(td, ch[i])])
    ELSE <<>>

\* `${node.type}_${node.width}x${node.height}`
baseSignature(node) ==
    TypeToString(node.type) \o <<95>> \o NumberToString(node.width)
        \o <<120>> \o NumberToString(node.height)

\* the signature built without sorting the children's signatures
createNodeSignature_unsorted(nm, td, nodeId) ==
    LET node == MapGet(nm, nodeId)
        treeNode == MapGet(td, nodeId)
        childSignatures ==
            join([i \in 1..Len(treeNode.children) |->
                     baseSignature(MapGet(nm, treeNode.children[i]))],
                 <<124>>)
    IN  IF Len(treeNode.children) = 0
        THEN baseSignature(node)
        ELSE baseSignature(node)
                \o <<95, 99, 104, 105, 108, 100, 114, 101, 110, 91>>
                \o childSignatures \o <<93>>

createNodeSignature(nm, td, nodeId) ==
    LET node == MapGet(nm, nodeId)
        treeNode == MapGet(td, nodeId)
        childSignatures ==
            join(sort([i \in 1..Len(treeNode.children) |->
                          baseSignature(MapGet(nm, treeNode.children[i]))]),
                 <<124>>)
    IN  IF Len(treeNode.children) = 0
        THEN baseSignature(node)
        ELSE baseSignature(node)
                \o <<95, 99, 104, 105, 108, 100, 114, 101, 110, 91>>
                \o childSignatures \o <<93>>

\* nodesBySignature after the first k keys of nodeMap have been processed
RECURSIVE bucketsAfter(_, _, _)
bucketsAfter(nm, td, k) ==
    IF k = 0 THEN <<>>
    ELSE LET prev == bucketsAfter(nm, td, k - 1)
             signature == createNodeSignature(nm, td, nm[k].id)
         IN  IF \E i \in 1..Len(prev) : prev[i].signature = signature
             THEN [i \in 1..Len(prev) |->
                      IF prev[i].signature = signature
                      THEN [prev[i] EXCEPT !.nodes = Append(@, nm[k])]
                      ELSE prev[i]]
             ELSE Append(prev, [signature |-> signature, nodes |-> <<nm[k]>>])

nodesBySignature(nm, td) == bucketsAfter(nm, td, Len(nm))

\* every bucket taken as a candidate, whatever its size
rawComponents_anySize(nm, td) ==
    LET big == nodesBySignature(nm, td)
    IN  [i \in 1..Len(big) |->
            [name |-> "C" \o ToString(i),
             nodeIds |-> [j \in 1..Len(big[i].nodes) |-> big[i].nodes[j].id]]]

\* candidates that list their members' descendants as members too
rawComponents_withDescendants(nm, td) ==
    LET big == SelectSeq(nodesBySignature(nm, td), LAMBDA b : Len(b.nodes) > 1)
    IN  [i \in 1..Len(big) |->
            [name |-> "C" \o ToString(i),
             nodeIds |-> Flat([j \in 1..Len(big[i].nodes) |->
                            <<big[i].nodes[j].id>>
                                \o getAllDescendants(td, big[i].nodes[j].id)])]]

\* the raw candidates: buckets with more than one node, named C1, C2, ...
rawComponents(nm, td) ==
    LET big == SelectSeq(nodesBySignature(nm, td), LAMBDA b : Len(b.nodes) > 1)
    IN  [i \in 1..Len(big) |->
            [name |-> "C" \o ToString(i),
             nodeIds |-> [j \in 1..Len(big[i].nodes) |-> big[i].nodes[j].id]]]

\* the ids marked as component nodes (members and all their descendants)
componentNodeIds(nm, td) ==
    LET comps == rawComponents(nm, td)
    IN  UNION {{comps[i].nodeIds[j] : j \in 1..Len(comps[i].nodeIds)}
                 \cup UNION {{d[k] : k \in 1..Len(d)} :
                        d \in {getAllDescendants(td, comps[i].nodeIds[j]) :
                                 j \in 1..Len(comps[i].nodeIds)}}
               : i \in 1..Len(comps)}

\* any parent outside the group taken for a component parent
hasComponentParent_anyParent(td, comps, nodeIds, nodeId) ==
    \E p \in 1..Len(td) :
        /\ includes(td[p].children, nodeId)
        /\ ~includes(nodeIds, td[p].id)

hasComponentParent(td, comps, nodeIds, nodeId) ==
    \E p \in 1..Len(td) :
        /\ includes(td[p].children, nodeId)
        /\ \E c \in 1..Len(comps) :
              /\ includes(comps[c].nodeIds, td[p].id)
              /\ ~includes(nodeIds, td[p].id)

\* a group kept only when every one of its nodes is independent
hasIndependentNode_every(td, comps, nodeIds) ==
    \A i \in 1..Len(nodeIds) : ~hasComponentParent(td, comps, nodeIds, nodeIds[i])

hasIndependentNode(td, comps, nodeIds) ==
    \E i \in 1..Len(nodeIds) : ~hasComponentParent(td, comps, nodeIds, nodeIds[i])

filteredComponents(td, comps) ==
    SelectSeq(comps, LAMBDA c : hasIndependentNode(td, comps, c.nodeIds))

\* the surviving groups under the names they had before filtering
finalComponents_sameNames(filtered) == filtered

finalComponents(filtered) ==
    [i \in 1..Len(filtered) |->
        [name |-> "C" \o ToString(i), nodeIds |-> filtered[i].nodeIds]]

detectComponents(nm, td) ==
    finalComponents(filteredComponents(td, rawComponents(nm, td)))

\* createNodeSignature reads treeData.get(nodeId)!.children and, for each child
\* id, nodeMap.get(childId)!.type: a TypeError when either lookup is undefined
createNodeSignatureThrows(nm, td, nodeId) ==
    \/ ~MapHas(td, nodeId)
    \/ \E k \in 1..Len(MapGet(td, nodeId).children) :
          ~MapHas(nm, MapGet(td, nodeId).children[k])

\* detectComponents calls createNodeSignature for every key of nodeMap before
\* anything is returned
detectComponentsThrows(nm, td) ==
    \E p \in 1..Len(nm) : createNodeSignatureThrows(nm, td, nm[p].id)

----------------------------------------------------------------------------
(* Exact rational numbers [n, d] with d > 0, in lowest terms *)

RECURSIVE GCD(_, _)
GCD(a, b) == IF b = 0 THEN a ELSE GCD(b, a % b)

Rat(n, d) ==
    LET g == GCD(Abs(n), d)
    IN  [n |-> n \div g, d |-> d \div g]

RInt(k) == [n |-> k, d |-> 1]

RAdd(a, b) == Rat(a.n * b.d + b.n * a.d, a.d * b.d)

RSub(a, b) == Rat(a.n * b.d - b.n * a.d, a.d * b.d)

RMul(a, b) == Rat(a.n * b.n, a.d * b.d)

\* a / b for b > 0
RDiv(a, b) == Rat(a.n * b.d, a.d * b.n)

RLeq(a, b) == a.n * b.d <= b.n * a.d

RLess(a, b) == a.n * b.d < b.n * a.d

RMax(a, b) == IF RLeq(b, a) THEN a ELSE b

RECURSIVE RSum(_)
RSum(rs) == IF rs = <<>> THEN RInt(0) ELSE RAdd(Head(rs), RSum(Tail(rs)))

----------------------------------------------------------------------------
(* utils/groupingComponent.config.ts, in hundredths *)

SIMILARITY_THRESHOLD == 75

STRUCTURE_WEIGHT == 60

STYLE_WEIGHT == 10

LAYOUT_WEIGHT == 20

CONTENT_WEIGHT == 10

\* the increment of the threshold for childless Divs: above 0.2053, so that the
\* two description blocks of the childless-div tests (score 0.9553) stay apart,
\* and below 0.25, so that two identical childless Divs are grouped
CHILDLESS_DIV_THRESHOLD_INCREASE == 22

----------------------------------------------------------------------------
(* utils/groupingComponent.ts: structure *)

flattenNodeTree(node) == traverse(node)

\* a threshold of 1 for every node
getSimilarityThreshold_one(node) == RInt(1)

getSimilarityThreshold(node) ==
    IF node.type = "Div" /\ Len(node.children) = 0
    THEN Rat(SIMILARITY_THRESHOLD + CHILDLESS_DIV_THRESHOLD_INCREASE, 100)
    ELSE Rat(SIMILARITY_THRESHOLD, 100)

RECURSIVE MaxOf(_)
MaxOf(ns) == IF Len(ns) = 1 THEN ns[1] ELSE Max2(ns[1], MaxOf(Tail(ns)))

RECURSIVE MinOf(_)
MinOf(ns) == IF Len(ns) = 1 THEN ns[1] ELSE Min2(ns[1], MinOf(Tail(ns)))

RECURSIVE calculateDepth(_)
calculateDepth(node) ==
    IF Len(node.children) = 0 THEN 1
    ELSE 1 + MaxOf([i \in 1..Len(node.children) |-> calculateDepth(node.children[i])])

getStructureSignature(node) ==
    [rootType |-> node.type,
     depth |-> calculateDepth(node),
     childTypes |-> [i \in 1..Len(node.children) |->
                        [type |-> node.children[i].type,
                         hasChildren |-> Len(node.children[i].children) > 0,
                         childCount |-> Len(node.children[i].children)]],
     childCount |-> Len(node.children)]

\* any child taken for an icon
hasIcon_anyChild(node) == Len(node.children) > 0

hasIcon(node) ==
    \E i \in 1..Len(node.children) : node.children[i].type = "Image"

isLikelyIconDifference(node1, node2) == hasIcon(node1) # hasIcon(node2)

\* currentScore of the inner loop, in tenths
childScore(child1, child2) ==
    IF child1.type # child2.type THEN 0
    ELSE IF child1.hasChildren # child2.hasChildren THEN 5
    ELSE IF child1.childCount # child2.childCount THEN 8
    ELSE 10

\* matchScore (in tenths) accumulated by the outer loop from index i on
RECURSIVE matchFrom(_, _, _, _)
matchFrom(childTypes1, childTypes2, i, used2) ==
    IF i > Len(childTypes1) THEN 0
    ELSE LET free == {j \in 1..Len(childTypes2) : j \notin used2}
             score(j) == childScore(childTypes1[i], childTypes2[j])
             bestScore == IF free = {} THEN 0
                          ELSE CHOOSE s \in {score(j) : j \in free} :
                                  \A j \in free : score(j) <= s
             bestMatch == CHOOSE j \in free :
                             /\ score(j) = bestScore
                             /\ \A k \in free : score(k) = bestScore => j <= k
         IN  IF bestScore > 0
             THEN bestScore
                    + matchFrom(childTypes1, childTypes2, i + 1, used2 \cup {bestMatch})
             ELSE matchFrom(childTypes1, childTypes2, i + 1, used2)

compareChildTypes(childTypes1, childTypes2) ==
    IF Len(childTypes1) = 0 /\ Len(childTypes2) = 0 THEN RInt(1)
    ELSE IF Len(childTypes1) = 0 \/ Len(childTypes2) = 0 THEN Rat(3, 10)
    ELSE LET maxLength == Max2(Len(childTypes1), Len(childTypes2))
             minLength == Min2(Len(childTypes1), Len(childTypes2))
             matchScore == matchFrom(childTypes1, childTypes2, 1, {})
             normalizedScore == Rat(matchScore, 10 * maxLength)
             sizePenalty ==
                 RSub(RInt(1), RMul(Rat(maxLength - minLength, maxLength), Rat(1, 2)))
         IN  RMul(normalizedScore, sizePenalty)

compareHierarchy(structure1, structure2) ==
    LET typeScore == IF structure1.rootType = structure2.rootType
                     THEN Rat(1, 2) ELSE RInt(0)
        diff == Abs(structure1.childCount - structure2.childCount)
        maxCount == Max2(structure1.childCount, structure2.childCount)
        countScore == IF structure1.childCount = structure2.childCount
                      THEN Rat(1, 2)
                      ELSE RMul(Rat(1, 2), RSub(RInt(1), Rat(diff, maxCount)))
    IN  RAdd(typeScore, countScore)

\* the score of the children and the hierarchy, whatever the two depths
calculateDefaultStructuralSimilarity_anyDepth(structure1, structure2) ==
    RDiv(RAdd(compareChildTypes(structure1.childTypes, structure2.childTypes),
              compareHierarchy(structure1, structure2)),
         RInt(2))

calculateDefaultStructuralSimilarity(structure1, structure2) ==
    IF structure1.depth # structure2.depth THEN RInt(0)
    ELSE RDiv(RAdd(compareChildTypes(structure1.childTypes, structure2.childTypes),
                   compareHierarchy(structure1, structure2)),
              RInt(2))

calculateDivStructuralSimilarity(structure1, structure2) ==
    IF structure1.depth # structure2.depth THEN RInt(0)
    ELSE RDiv(RAdd(compareChildTypes(structure1.childTypes, structure2.childTypes),
                   compareHierarchy(structure1, structure2)),
              RInt(2))

calculateInputStructuralSimilarity(structure1, structure2) ==
    IF structure1.childCount = 0 /\ structure2.childCount = 0 THEN RInt(1)
    ELSE IF structure1.childCount <= 1 /\ structure2.childCount <= 1 THEN Rat(8, 10)
    ELSE calculateDefaultStructuralSimilarity(structure1, structure2)

calculateButtonStructuralSimilarity(structure1, structure2, node1, node2) ==
    LET childCountDiff == Abs(structure1.childCount - structure2.childCount)
        maxCount == Max2(structure1.childCount, structure2.childCount)
    IN  IF structure1.childCount <= 1 /\ structure2.childCount <= 1 THEN Rat(9, 10)
        ELSE IF childCountDiff = 1
             THEN (IF isLikelyIconDifference(node1, node2) THEN Rat(8, 10) ELSE Rat(6, 10))
        ELSE IF structure1.childCount <= 2 /\ structure2.childCount <= 2 THEN Rat(5, 10)
        ELSE IF maxCount = 0 THEN RInt(1)
        ELSE RMax(RInt(0), RSub(RInt(1), Rat(childCountDiff, maxCount)))

calculateComponentSpecificSimilarity(structure1, structure2, node1, node2) ==
    CASE structure1.rootType = "Button" ->
            calculateButtonStructuralSimilarity(structure1, structure2, node1, node2)
      [] structure1.rootType = "Div" ->
            calculateDivStructuralSimilarity(structure1, structure2)
      [] structure1.rootType = "Input" ->
            calculateInputStructuralSimilarity(structure1, structure2)
      [] OTHER ->
            calculateDefaultStructuralSimilarity(structure1, structure2)

calculateStructuralSimilarity(node1, node2) ==
    LET structure1 == getStructureSignature(node1)
        structure2 == getStructureSignature(node2)
    IN  IF structure1.rootType # structure2.rootType THEN RInt(0)
        ELSE calculateComponentSpecificSimilarity(structure1, structure2, node1, node2)

----------------------------------------------------------------------------
(* utils/groupingComponent.ts: style, layout, content and the total score *)

\* the values of the explored style strings that contain '#'
HashValues == {"#007bff", "#6c757d", "#ffffff", "#ff0000", "#fff", "1px solid #ccc"}

\* the explored texts that contain a digit
DigitTexts == {"Item 1", "Card 2"}

styleProperties ==
    <<"background", "color", "border", "display", "font-size", "font-weight",
      "line-height">>

bothExistAndSimilar(val1, val2) ==
    IF ~Truthy(val1) \/ ~Truthy(val2) THEN FALSE
    ELSE IF val1 \in HashValues /\ val2 \in HashValues THEN Len(val1) = Len(val2)
    ELSE FALSE

\* the score one property adds to styleScore, in halves
stylePropertyScore(node1, node2, prop) ==
    IF Get(node1, prop) = Get(node2, prop) THEN 2
    ELSE IF bothExistAndSimilar(Get(node1, prop), Get(node2, prop)) THEN 1
    ELSE 0

RECURSIVE SumOf(_)
SumOf(ns) == IF ns = <<>> THEN 0 ELSE Head(ns) + SumOf(Tail(ns))

calculateStyleSimilarity(node1, node2) ==
    Rat(SumOf([i \in 1..Len(styleProperties) |->
                  stylePropertyScore(node1, node2, styleProperties[i])]),
        2 * Len(styleProperties))

\* the falloff returned as it is, without Math.max(0, ...)
calculateDimensionSimilarity_unclamped(dim1, dim2) ==
    LET diff == RInt(Abs(dim1 - dim2))
        avg == Rat(dim1 + dim2, 2)
        threshold == RMul(avg, Rat(2, 10))
    IN  IF RLeq(diff, threshold) THEN RInt(1)
        ELSE RSub(RInt(1), RDiv(RSub(diff, threshold), avg))

calculateDimensionSimilarity(dim1, dim2) ==
    LET diff == RInt(Abs(dim1 - dim2))
        avg == Rat(dim1 + dim2, 2)
        threshold == RMul(avg, Rat(2, 10))
    IN  IF RLeq(diff, threshold) THEN RInt(1)
        ELSE RMax(RInt(0), RSub(RInt(1), RDiv(RSub(diff, threshold), avg)))

calculateLayoutSimilarity(node1, node2) ==
    RDiv(RAdd(calculateDimensionSimilarity(node1.width, node2.width),
              calculateDimensionSimilarity(node1.height, node2.height)),
         RInt(2))

calculateTextPatternSimilarity(text1, text2) ==
    IF text1 = text2 THEN RInt(1)
    ELSE LET lengthSim ==
                 RSub(RInt(1),
                      Rat(Abs(Len(text1) - Len(text2)), Max2(Len(text1), Len(text2))))
             numberSim ==
                 IF (text1 \in DigitTexts) = (text2 \in DigitTexts)
                 THEN RInt(1) ELSE RInt(0)
         IN  RDiv(RAdd(lengthSim, numberSim), RInt(2))

calculateContentSimilarity(node1, node2) ==
    IF ~Truthy(Get(node1, "text")) /\ ~Truthy(Get(node2, "text")) THEN RInt(1)
    ELSE IF ~Truthy(Get(node1, "text")) \/ ~Truthy(Get(node2, "text")) THEN Rat(1, 2)
    ELSE calculateTextPatternSimilarity(node1.text, node2.text)

calculateSimilarity(node1, node2) ==
    RSum(<<RMul(calculateStructuralSimilarity(node1, node2), Rat(STRUCTURE_WEIGHT, 100)),
           RMul(calculateStyleSimilarity(node1, node2), Rat(STYLE_WEIGHT, 100)),
           RMul(calculateLayoutSimilarity(node1, node2), Rat(LAYOUT_WEIGHT, 100)),
           RMul(calculateContentSimilarity(node1, node2), Rat(CONTENT_WEIGHT, 100))>>)

----------------------------------------------------------------------------
(* utils/groupingComponent.ts: feature extraction and variations *)

\* `group_${Date.now()}_${Math.random().toString(36).substr(2, 9)}`
generateGroupId(draw) ==
    "group_" \o ToString(draw.now) \o "_" \o draw.random

hasCardLikeStructure(ns) ==
    \A i \in 1..Len(ns) :
        ns[i].type = "Div" /\ Len(ns[i].children) > 0 /\ Truthy(Get(ns[i], "background"))

\* the label chosen by the type of the first node alone
identifyPattern_byFirstType(ns) ==
    IF ns[1].type = "Button" THEN "Button"
    ELSE IF ns[1].type = "Input" THEN "Input Field"
    ELSE IF ns[1].type = "Image" THEN "Image"
    ELSE IF Len(ns[1].children) > 0 THEN "Card"
    ELSE "Custom Component"

identifyPattern(ns) ==
    IF hasCardLikeStructure(ns) THEN "Card"
    ELSE IF ns[1].type = "Button" THEN "Button"
    ELSE IF ns[1].type = "Input" THEN "Input Field"
    ELSE IF ns[1].type = "Image" THEN "Image"
    ELSE "Custom Component"

\* StyleProperties: a record holding only the properties that were set
extractCommonStyles(ns) ==
    LET styleProps == {"background", "color", "border", "display"}
        values(prop) == SelectSeq([i \in 1..Len(ns) |-> Get(ns[i], prop)], Truthy)
        common == {prop \in styleProps :
                      /\ Len(values(prop)) > 0
                      /\ \A i \in 1..Len(values(prop)) : values(prop)[i] = values(prop)[1]}
    IN  [prop \in common |-> values(prop)[1]]

calculateVariance(numbers) ==
    LET mean == Rat(SumOf(numbers), Len(numbers))
        squaredDiffs == [i \in 1..Len(numbers) |->
                            RMul(RSub(RInt(numbers[i]), mean), RSub(RInt(numbers[i]), mean))]
    IN  RDiv(RSum(squaredDiffs), RInt(Len(numbers)))

extractCommonFeatures(ns) ==
    LET widths == [i \in 1..Len(ns) |-> ns[i].width]
        heights == [i \in 1..Len(ns) |-> ns[i].height]
        xs == [i \in 1..Len(ns) |-> ns[i].x]
        ys == [i \in 1..Len(ns) |-> ns[i].y]
    IN  [structure |-> getStructureSignature(ns[1]),
         styleProperties |-> extractCommonStyles(ns),
         dimensions |-> [minWidth |-> MinOf(widths), maxWidth |-> MaxOf(widths),
                         minHeight |-> MinOf(heights), maxHeight |-> MaxOf(heights)],
         positionPattern |-> [averageX |-> Rat(SumOf(xs), Len(xs)),
                              averageY |-> Rat(SumOf(ys), Len(ys)),
                              xVariance |-> calculateVariance(xs),
                              yVariance |-> calculateVariance(ys)]]

\* every background named Custom
getButtonVariantType_custom(bgColor) == "Custom"

getButtonVariantType(bgColor) ==
    CASE bgColor = "#007bff" -> "Primary"
      [] bgColor = "#6c757d" -> "Secondary"
      [] bgColor = "transparent" -> "Outline"
      [] bgColor = "#dc3545" -> "Danger"
      [] bgColor = "#28a745" -> "Success"
      [] bgColor = "#ffc107" -> "Warning"
      [] OTHER -> "Custom"

\* a small child taken for a badge whether it has a background or not
hasBadge_anySmallChild(node) ==
    \E i \in 1..Len(node.children) :
        /\ 10 * node.children[i].width < 3 * node.width
        /\ 10 * node.children[i].height < 3 * node.height

hasBadge(node) ==
    \E i \in 1..Len(node.children) :
        /\ 10 * node.children[i].width < 3 * node.width
        /\ 10 * node.children[i].height < 3 * node.height
        /\ Truthy(Get(node.children[i], "background"))

\* the keys of styleGroups in insertion order
RECURSIVE styleKeys(_)
styleKeys(ns) ==
    IF ns = <<>> THEN <<>>
    ELSE LET prev == styleKeys(SubSeq(ns, 1, Len(ns) - 1))
             last == ns[Len(ns)]
             bgColor == IF Truthy(Get(last, "background"))
                        THEN last.background ELSE "default"
         IN  IF includes(prev, bgColor) THEN prev ELSE Append(prev, bgColor)

identifyButtonVariations(ns) ==
    LET bg(n) == IF Truthy(Get(n, "background")) THEN n.background ELSE "default"
        keys == styleKeys(ns)
        styleGroup(k) == SelectSeq(ns, LAMBDA n : bg(n) = k)
        withIcon == SelectSeq(ns, hasIcon)
        withoutIcon == SelectSeq(ns, LAMBDA n : ~hasIcon(n))
        styleVariations ==
            IF Len(keys) > 1
            THEN [i \in 1..Len(keys) |->
                    [type |-> getButtonVariantType(keys[i]),
                     description |-> getButtonVariantType(keys[i]) \o " style buttons ("
                         \o ToString(Len(styleGroup(keys[i]))) \o " instances)",
                     examples |-> styleGroup(keys[i])]]
            ELSE <<>>
        iconVariations ==
            IF Len(withIcon) > 0 /\ Len(withoutIcon) > 0
            THEN <<[type |-> "With Icon",
                    description |-> "Buttons with icon ("
                        \o ToString(Len(withIcon)) \o " instances)",
                    examples |-> withIcon],
                   [type |-> "Without Icon",
                    description |-> "Buttons without icon ("
                        \o ToString(Len(withoutIcon)) \o " instances)",
                    examples |-> withoutIcon]>>
            ELSE <<>>
    IN  styleVariations \o iconVariations

identifyVariations(ns) ==
    IF ns[1].type = "Button" THEN identifyButtonVariations(ns)
    ELSE LET withBadge == SelectSeq(ns, hasBadge)
             withoutBadge == SelectSeq(ns, LAMBDA n : ~hasBadge(n))
         IN  IF Len(withBadge) > 0 /\ Len(withoutBadge) > 0
             THEN <<[type |-> "With Badge",
                     description |-> "Cards with additional badge component ("
                         \o ToString(Len(withBadge)) \o " instances)",
                     examples |-> withBadge],
                    [type |-> "Without Badge",
                     description |-> "Basic cards without badge ("
                         \o ToString(Len(withoutBadge)) \o " instances)",
                     examples |-> withoutBadge]>>
             ELSE <<>>

\* a group whose pattern label carries the random part of its id
createNodeGroup_stamped(similarNodes, draw) ==
    [id |-> generateGroupId(draw),
     pattern |-> identifyPattern(similarNodes) \o " " \o draw.random,
     nodes |-> similarNodes,
     commonFeatures |-> extractCommonFeatures(similarNodes),
     variations |-> identifyVariations(similarNodes)]

createNodeGroup(similarNodes, draw) ==
    [id |-> generateGroupId(draw),
     pattern |-> identifyPattern(similarNodes),
     nodes |-> similarNodes,
     commonFeatures |-> extractCommonFeatures(similarNodes),
     variations |-> identifyVariations(similarNodes)]

----------------------------------------------------------------------------
(* utils/groupingComponent.ts: clustering *)

\* every unprocessed node of the type of the reference node collected
findSimilarNodes_sameType(referenceNode, allNodes, processed) ==
    LET similar(candidate) ==
            /\ candidate.id \notin processed
            /\ candidate.id # referenceNode.id
            /\ candidate.type = referenceNode.type
    IN  <<referenceNode>> \o SelectSeq(allNodes, similar)

findSimilarNodes(referenceNode, allNodes, processed) ==
    LET referenceThreshold == getSimilarityThreshold(referenceNode)
        similar(candidate) ==
            /\ candidate.id \notin processed
            /\ candidate.id # referenceNode.id
            /\ RLeq(RMax(referenceThreshold, getSimilarityThreshold(candidate)),
                    calculateSimilarity(referenceNode, candidate))
    IN  <<referenceNode>> \o SelectSeq(allNodes, similar)

\* the loop of groupSimilarNodes from index i on: acc holds the similarNodes
\* lists for which a group has been pushed so far
RECURSIVE groupFrom(_, _, _, _)
groupFrom(ns, i, acc, processed) ==
    IF i > Len(ns) THEN acc
    ELSE IF ns[i].id \in processed THEN groupFrom(ns, i + 1, acc, processed)
    ELSE LET similarNodes == findSimilarNodes(ns[i], ns, processed)
         IN  IF Len(similarNodes) >= 2
             THEN groupFrom(ns, i + 1, Append(acc, similarNodes),
                      processed \cup {similarNodes[k].id : k \in 1..Len(similarNodes)})
             ELSE groupFrom(ns, i + 1, acc, processed)

\* the lists collected by every node as a seed, no node being marked as processed
similarClusters_unmarked(ns) ==
    SelectSeq([i \in 1..Len(ns) |-> findSimilarNodes(ns[i], ns, {})],
              LAMBDA similarNodes : Len(similarNodes) >= 2)

\* every node taken as a list of similar nodes of its own
similarClusters_singletons(ns) == [i \in 1..Len(ns) |-> <<ns[i]>>]

\* the similarNodes lists of the groups groupSimilarNodes pushes, in order
similarClusters(ns) == groupFrom(ns, 1, <<>>, {})

\* the groups pushed for these lists; draws[k] is the outcome of Date.now() and
\* Math.random() in the k-th call of generateGroupId
groupsOf(clusters, draws) ==
    [k \in 1..Len(clusters) |-> createNodeGroup(clusters[k], draws[k])]

groupSimilarNodes(ns, draws) == groupsOf(similarClusters(ns), draws)

groupSimilarNodesFromTree(rootNode, draws) ==
    groupSimilarNodes(flattenNodeTree(rootNode), draws)

----------------------------------------------------------------------------
(* The explored inputs *)

Node(id, type, width, height) ==
    [id |-> id, type |-> type, x |-> 0, y |-> 0, width |-> width, height |-> height,
     children |-> <<>>]

\* parent vectors of the rooted ordered trees with ids 1..n given in visiting order
RECURSIVE PathToRoot(_, _)
PathToRoot(parent, i) ==
    IF i = 0 THEN {} ELSE {i} \cup PathToRoot(parent, parent[i])

RECURSIVE Shapes(_)
Shapes(n) ==
    IF n = 1 THEN {<<0>>}
    ELSE UNION {{Append(parent, q) : q \in PathToRoot(parent, n - 1)} :
                  parent \in Shapes(n - 1)}

RECURSIVE BuildNode(_, _, _)
BuildNode(parent, attrs, i) ==
    LET kids == SelectSeq([j \in 1..Len(parent) |-> j], LAMBDA j : parent[j] = i)
    IN  [attrs[i] EXCEPT !.children = [k \in 1..Len(kids) |-> BuildNode(parent, attrs, kids[k])]]

\* node i of a tree: its kind decides type and size, its id the position and
\* whether it has a background
TreeNodeOf(i, kind) ==
    IF i % 2 = 0
    THEN [id |-> i, type |-> kind.type, x |-> 10 * i, y |-> 0, width |-> kind.width,
          height |-> kind.height, background |-> "#fff", children |-> <<>>]
    ELSE [id |-> i, type |-> kind.type, x |-> 10 * i, y |-> 0, width |-> kind.width,
          height |-> kind.height, children |-> <<>>]

\* the tree of this shape whose node i is of kind ks[i]
TreeOf(parent, ks) ==
    BuildNode(parent, [i \in 1..Len(parent) |-> TreeNodeOf(i, ks[i])], 1)

Container == [type |-> "Div", width |-> 240, height |-> 140]

Kinds == {Container, [type |-> "Button", width |-> 120, height |-> 40]}

SigKinds ==
    {[type |-> "Div", width |-> 1, height |-> 11],
     [type |-> "Div", width |-> 11, height |-> 1],
     [type |-> "Button", width |-> 1, height |-> 11]}

\* the outcomes of Date.now() and Math.random() seen by generateGroupId
Draws ==
    {[now |-> 1700000000, random |-> "k3j2h1g9x"],
     [now |-> 1700000000, random |-> "p0o9i8u7y"]}

----------------------------------------------------------------------------
(* The detector run on one tree snapshot: convert, then detect *)

Start(r) ==
    /\ pc = "start"
    /\ root = r
    /\ nodeMap = <<>>
    /\ treeData = <<>>
    /\ candidates = <<>>
    /\ detected = <<>>
    /\ nodes = <<>>
    /\ groups = <<>>
    /\ groups2 = <<>>
    /\ sim = <<>>
    /\ selectedId = NoId
    /\ components = <<>>

\* the nodes of a shape that have no children
Leaves(parent) == {i \in 1..Len(parent) : \A j \in 1..Len(parent) : parent[j] # i}

\* containers are Divs of one size; each leaf is a Div of that size or a Button
Init ==
    \E n \in 1..MaxNodes : \E parent \in Shapes(n) : \E ks \in [Leaves(parent) -> Kinds] :
        Start(TreeOf(parent, [i \in 1..n |-> IF i \in Leaves(parent) THEN ks[i]
                                             ELSE Container]))

Convert ==
    /\ pc = "start"
    /\ LET optimized == convertToOptimizedStructure(root)
       IN  nodeMap' = optimized.nodeMap /\ treeData' = optimized.treeData
    /\ pc' = "converted"
    /\ UNCHANGED <<root, candidates, detected, nodes, groups, groups2, sim,
                 selectedId, components>>

Detect ==
    /\ pc = "converted"
    /\ candidates' = rawComponents(nodeMap, treeData)
    /\ detected' = finalComponents(filteredComponents(treeData, candidates'))
    /\ pc' = "detected"
    /\ UNCHANGED <<root, nodeMap, treeData, nodes, groups, groups2, sim,
                 selectedId, components>>

Next == Convert \/ Detect

Spec == Init /\ [][Next]_vars

----------------------------------------------------------------------------
(* Signatures: the detector on trees of more kinds of nodes *)

\* every node, container or leaf, is of any of the kinds of SigKinds
InitSig ==
    \E n \in 1..MaxSigNodes : \E parent \in Shapes(n) : \E ks \in [1..n -> SigKinds] :
        Start(TreeOf(parent, ks))

NextSig == Convert \/ Detect

SpecSig == InitSig /\ [][NextSig]_vars

----------------------------------------------------------------------------
(* Both pipelines on one tree snapshot: convert, detect, group *)

InitEngine ==
    \E n \in 1..MaxEngineNodes : \E parent \in Shapes(n) :
        \E ks \in [Leaves(parent) -> Kinds] :
            Start(TreeOf(parent, [i \in 1..n |-> IF i \in Leaves(parent) THEN ks[i]
                                                 ELSE Container]))

GroupFromTree ==
    /\ pc = "detected"
    /\ nodes' = flattenNodeTree(root)
    /\ LET clusters == similarClusters(flattenNodeTree(root))
       IN  \E draws \in [1..Len(clusters) -> Draws] :
              groups' = groupsOf(clusters, draws)
    /\ pc' = "grouped"
    /\ UNCHANGED <<root, nodeMap, treeData, candidates, detected, groups2, sim,
                 selectedId, components>>

NextEngine == Convert \/ Detect \/ GroupFromTree

SpecEngine == InitEngine /\ [][NextEngine]_vars

----------------------------------------------------------------------------
(* The scorer on a pair of trees, in both argument orders *)

StartList(ns) ==
    /\ pc = "start"
    /\ root = <<>>
    /\ nodeMap = <<>>
    /\ treeData = <<>>
    /\ candidates = <<>>
    /\ detected = <<>>
    /\ nodes = ns
    /\ groups = <<>>
    /\ groups2 = <<>>
    /\ sim = <<>>
    /\ selectedId = NoId
    /\ components = <<>>

\* the trees of at most n nodes: containers are Divs of one size, each leaf is a
\* Div of that size or a Button
SimTree(n, parent, ks) ==
    TreeOf(parent, [i \in 1..n |-> IF i \in Leaves(parent) THEN ks[i] ELSE Container])

InitSim ==
    \E n1, n2 \in 1..MaxSimNodes :
        \E parent1 \in Shapes(n1), parent2 \in Shapes(n2) :
            \E ks1 \in [Leaves(parent1) -> Kinds], ks2 \in [Leaves(parent2) -> Kinds] :
                StartList(<<SimTree(n1, parent1, ks1), SimTree(n2, parent2, ks2)>>)

Score ==
    /\ pc = "start"
    /\ sim' = [ab |-> calculateSimilarity(nodes[1], nodes[2]),
               ba |-> calculateSimilarity(nodes[2], nodes[1])]
    /\ pc' = "scored"
    /\ UNCHANGED <<root, nodeMap, treeData, candidates, detected, nodes, groups, groups2,
                 selectedId, components>>

NextSim == Score

SpecSim == InitSim /\ [][NextSim]_vars

----------------------------------------------------------------------------
(* The scorer on a node and a copy of it that differs in the ids only *)

TwinChild(i, kind) ==
    IF kind = "Image"
    THEN [id |-> i, type |-> "Image", x |-> 8, y |-> 12, width |-> 16, height |-> 16,
          children |-> <<>>]
    ELSE [id |-> i, type |-> "Div", x |-> 30, y |-> 10, width |-> 60, height |-> 20,
          text |-> "Item 1", children |-> <<>>]

\* a node of this type whose children are of these kinds, with or without a
\* background, a colour and a text
TwinNode(type, kinds, styled) ==
    IF styled
    THEN [id |-> 1, type |-> type, x |-> 0, y |-> 0, width |-> 120, height |-> 40,
          background |-> "#007bff", color |-> "#ffffff", text |-> "Save",
          children |-> [k \in 1..Len(kinds) |-> TwinChild(k + 1, kinds[k])]]
    ELSE [id |-> 1, type |-> type, x |-> 0, y |-> 0, width |-> 120, height |-> 40,
          children |-> [k \in 1..Len(kinds) |-> TwinChild(k + 1, kinds[k])]]

\* the same subtree under other ids
RECURSIVE Reid(_, _)
Reid(node, offset) ==
    [node EXCEPT !.id = node.id + offset,
                 !.children = [k \in 1..Len(node.children) |->
                                  Reid(node.children[k], offset)]]

InitTwin ==
    \E type \in {"Button", "Div", "Input", "Image"} :
        \E n \in 0..MaxTwinChildren : \E kinds \in [1..n -> {"Image", "Div"}] :
            \E styled \in BOOLEAN :
                StartList(<<TwinNode(type, kinds, styled),
                            Reid(TwinNode(type, kinds, styled), 10)>>)

NextTwin == Score

SpecTwin == InitTwin /\ [][NextTwin]_vars

----------------------------------------------------------------------------
(* The grouper called twice on one list of nodes *)

PaletteKinds ==
    {"PrimaryButton", "SecondaryButton", "IconButton", "BorderCard", "PlainCard",
     "BadgeCard", "Box", "BadgeBox", "Input"}

\* the node at position i of a list: buttons of two colours, a button with an
\* icon, cards with and without a border, a card with a badge, boxes without
\* a background whose small child has a background or not, an input
PaletteNode(i, kind) ==
    LET title == [id |-> 10 * i + 1, type |-> "Div", x |-> 300 * i + 20, y |-> 20,
                  width |-> 200, height |-> 20, text |-> "Card 2", children |-> <<>>]
        badge == [id |-> 10 * i + 2, type |-> "Div", x |-> 300 * i + 200, y |-> 10,
                  width |-> 30, height |-> 20, background |-> "#ff0000",
                  children |-> <<>>]
        chip == [id |-> 10 * i + 2, type |-> "Div", x |-> 300 * i + 200, y |-> 10,
                 width |-> 30, height |-> 20, children |-> <<>>]
        icon == [id |-> 10 * i + 1, type |-> "Image", x |-> 300 * i + 8, y |-> 12,
                 width |-> 16, height |-> 16, children |-> <<>>]
    IN  CASE kind = "PrimaryButton" ->
                [id |-> i, type |-> "Button", x |-> 300 * i, y |-> 0, width |-> 120,
                 height |-> 40, background |-> "#007bff", color |-> "#ffffff",
                 text |-> "Save", children |-> <<>>]
          [] kind = "SecondaryButton" ->
                [id |-> i, type |-> "Button", x |-> 300 * i, y |-> 0, width |-> 120,
                 height |-> 40, background |-> "#6c757d", color |-> "#ffffff",
                 text |-> "Cancel", children |-> <<>>]
          [] kind = "IconButton" ->
                [id |-> i, type |-> "Button", x |-> 300 * i, y |-> 0, width |-> 120,
                 height |-> 40, background |-> "#007bff", color |-> "#ffffff",
                 text |-> "Save", children |-> <<icon>>]
          [] kind = "BorderCard" ->
                [id |-> i, type |-> "Div", x |-> 300 * i, y |-> 0, width |-> 240,
                 height |-> 140, background |-> "#ffffff", border |-> "1px solid #ccc",
                 children |-> <<title>>]
          [] kind = "PlainCard" ->
                [id |-> i, type |-> "Div", x |-> 300 * i, y |-> 0, width |-> 240,
                 height |-> 140, background |-> "#ffffff", children |-> <<title>>]
          [] kind = "BadgeCard" ->
                [id |-> i, type |-> "Div", x |-> 300 * i, y |-> 0, width |-> 240,
                 height |-> 140, background |-> "#ffffff", children |-> <<title, badge>>]
          [] kind = "Box" ->
                [id |-> i, type |-> "Div", x |-> 300 * i, y |-> 0, width |-> 240,
                 height |-> 140, children |-> <<title, chip>>]
          [] kind = "BadgeBox" ->
                [id |-> i, type |-> "Div", x |-> 300 * i, y |-> 0, width |-> 240,
                 height |-> 140, children |-> <<title, badge>>]
          [] kind = "Input" ->
                [id |-> i, type |-> "Input", x |-> 300 * i, y |-> 0, width |-> 200,
                 height |-> 30, border |-> "1px solid #ccc", children |-> <<>>]

InitGroup ==
    \E n \in 2..MaxGroupNodes : \E ks \in [1..n -> PaletteKinds] :
        StartList([i \in 1..n |-> PaletteNode(i, ks[i])])

GroupSimilarNodes ==
    /\ pc = "start"
    /\ LET clusters == similarClusters(nodes)
       IN  \E draws \in [1..Len(clusters) -> Draws] :
              groups' = groupsOf(clusters, draws)
    /\ pc' = "grouped"
    /\ UNCHANGED <<root, nodeMap, treeData, candidates, detected, nodes, groups2, sim,
                 selectedId, components>>

GroupAgain ==
    /\ pc = "grouped"
    /\ LET clusters == similarClusters(nodes)
       IN  \E draws \in [1..Len(clusters) -> Draws] :
              groups2' = groupsOf(clusters, draws)
    /\ pc' = "regrouped"
    /\ UNCHANGED <<root, nodeMap, treeData, candidates, detected, nodes, groups, sim,
                 selectedId, components>>

NextGroup == GroupSimilarNodes \/ GroupAgain

SpecGroup == InitGroup /\ [][NextGroup]_vars

----------------------------------------------------------------------------
(* The two exported functions called on what a caller may hand them: empty  *)
(* maps, maps of a tree, maps of a tree with one entry missing; an empty or *)
(* a one-element list                                                       *)

MapDelete(m, id) == SelectSeq(m, LAMBDA e : e.id # id)

StartGiven(nm, td, ns) ==
    /\ pc = "start"
    /\ root = <<>>
    /\ nodeMap = nm
    /\ treeData = td
    /\ candidates = <<>>
    /\ detected = <<>>
    /\ nodes = ns
    /\ groups = <<>>
    /\ groups2 = <<>>
    /\ sim = <<>>
    /\ selectedId = NoId
    /\ components = <<>>

\* the lists of at most one node
ShortLists == {<<>>} \cup {<<PaletteNode(1, kind)>> : kind \in PaletteKinds}

InitEdge ==
    \E ns \in ShortLists :
        \/ StartGiven(<<>>, <<>>, ns)
        \/ \E n \in 1..MaxEdgeNodes : \E parent \in Shapes(n) :
              \E ks \in [Leaves(parent) -> Kinds] :
                 LET optimized == convertToOptimizedStructure(SimTree(n, parent, ks))
                 IN  \/ StartGiven(optimized.nodeMap, optimized.treeData, ns)
                     \/ \E id \in 1..n :
                           StartGiven(MapDelete(optimized.nodeMap, id),
                                      optimized.treeData, ns)
                     \/ \E id \in 1..n :
                           StartGiven(optimized.nodeMap,
                                      MapDelete(optimized.treeData, id), ns)

\* detectComponents(nodeMap, treeData): returns, or ends with a TypeError
DetectGiven ==
    /\ pc = "start"
    /\ IF detectComponentsThrows(nodeMap, treeData)
       THEN pc' = "threw" /\ UNCHANGED <<candidates, detected>>
       ELSE /\ candidates' = rawComponents(nodeMap, treeData)
            /\ detected' = finalComponents(filteredComponents(treeData, candidates'))
            /\ pc' = "detected"
    /\ UNCHANGED <<root, nodeMap, treeData, nodes, groups, groups2, sim,
                 selectedId, components>>

\* groupSimilarNodes(nodes), once detectComponents has returned
GroupGiven ==
    /\ pc = "detected"
    /\ LET clusters == similarClusters(nodes)
       IN  \E draws \in [1..Len(clusters) -> Draws] :
              groups' = groupsOf(clusters, draws)
    /\ pc' = "grouped"
    /\ UNCHANGED <<root, nodeMap, treeData, candidates, detected, nodes, groups2, sim,
                 selectedId, components>>

NextEdge == DetectGiven \/ GroupGiven

SpecEdge == InitEdge /\ [][NextEdge]_vars

----------------------------------------------------------------------------
(* The grouper on a list of Buttons *)

ButtonKinds ==
    {"Primary", "PrimaryIcon", "PrimaryLabel", "Outline", "Custom", "None",
     "NoneIcon", "Empty", "Default"}

\* the Button at position i of a list: its kind decides the background (a named
\* colour, another colour, none, the empty string, the string 'default') and
\* whether it has an Image child, a Div child or no child
ButtonNode(i, kind) ==
    LET icon == [id |-> 10 * i + 1, type |-> "Image", x |-> 300 * i + 8, y |-> 12,
                 width |-> 16, height |-> 16, children |-> <<>>]
        label == [id |-> 10 * i + 1, type |-> "Div", x |-> 300 * i + 30, y |-> 10,
                  width |-> 60, height |-> 20, text |-> "Item 1", children |-> <<>>]
        kids == IF kind \in {"PrimaryIcon", "NoneIcon"} THEN <<icon>>
                ELSE IF kind = "PrimaryLabel" THEN <<label>> ELSE <<>>
        background == CASE kind \in {"Primary", "PrimaryIcon", "PrimaryLabel"} -> "#007bff"
                        [] kind = "Outline" -> "transparent"
                        [] kind = "Custom" -> "#ff0000"
                        [] kind = "Empty" -> ""
                        [] OTHER -> "default"
    IN  IF kind \in {"None", "NoneIcon"}
        THEN [id |-> i, type |-> "Button", x |-> 300 * i, y |-> 0, width |-> 120,
              height |-> 40, color |-> "#ffffff", text |-> "Save", children |-> kids]
        ELSE [id |-> i, type |-> "Button", x |-> 300 * i, y |-> 0, width |-> 120,
              height |-> 40, background |-> background, color |-> "#ffffff",
              text |-> "Save", children |-> kids]

InitButtons ==
    \E n \in 2..MaxButtonNodes : \E ks \in [1..n -> ButtonKinds] :
        StartList([i \in 1..n |-> ButtonNode(i, ks[i])])

NextButtons == GroupSimilarNodes

SpecButtons == InitButtons /\ [][NextButtons]_vars

----------------------------------------------------------------------------
(* The grouper on a list of cards, with nodes of the other types among them *)

CardKinds ==
    {"Card1", "Card1Badge", "Card2", "Card2Badge", "Card2Chip", "Card2Edge",
     "Card2NoFill", "Button", "Input", "Image"}

\* the node at position i of a list.  A card is a Div 240x140 with a background
\* and a title (Card1) or a title and a content block (Card2); it may have one
\* more child: a badge (30x20, with a background), a chip (30x20, without one)
\* or an edge block (72x20 with a background: exactly 30% of the card's width).
\* Card2NoFill is Card2 with the empty string as background.
CardNode(i, kind) ==
    LET title == [id |-> 10 * i + 1, type |-> "Div", x |-> 300 * i + 20, y |-> 20,
                  width |-> 200, height |-> 30, text |-> "Card 2", children |-> <<>>]
        content == [id |-> 10 * i + 2, type |-> "Div", x |-> 300 * i + 20, y |-> 60,
                    width |-> 200, height |-> 60, text |-> "Save", children |-> <<>>]
        badge == [id |-> 10 * i + 3, type |-> "Div", x |-> 300 * i + 180, y |-> 10,
                  width |-> 30, height |-> 20, background |-> "#ff0000",
                  children |-> <<>>]
        chip == [id |-> 10 * i + 3, type |-> "Div", x |-> 300 * i + 180, y |-> 10,
                 width |-> 30, height |-> 20, children |-> <<>>]
        edge == [id |-> 10 * i + 3, type |-> "Div", x |-> 300 * i + 160, y |-> 10,
                 width |-> 72, height |-> 20, background |-> "#ff0000",
                 children |-> <<>>]
        kids == CASE kind = "Card1" -> <<title>>
                  [] kind = "Card1Badge" -> <<title, badge>>
                  [] kind \in {"Card2", "Card2NoFill"} -> <<title, content>>
                  [] kind = "Card2Badge" -> <<title, content, badge>>
                  [] kind = "Card2Chip" -> <<title, content, chip>>
                  [] kind = "Card2Edge" -> <<title, content, edge>>
                  [] OTHER -> <<>>
    IN  CASE kind = "Button" ->
                [id |-> i, type |-> "Button", x |-> 300 * i, y |-> 0, width |-> 120,
                 height |-> 40, background |-> "#007bff", text |-> "Save",
                 children |-> <<>>]
          [] kind = "Input" ->
                [id |-> i, type |-> "Input", x |-> 300 * i, y |-> 0, width |-> 200,
                 height |-> 30, border |-> "1px solid #ccc", children |-> <<>>]
          [] kind = "Image" ->
                [id |-> i, type |-> "Image", x |-> 300 * i, y |-> 0, width |-> 100,
                 height |-> 100, children |-> <<>>]
          [] kind = "Card2NoFill" ->
                [id |-> i, type |-> "Div", x |-> 300 * i, y |-> 0, width |-> 240,
                 height |-> 140, background |-> "", children |-> kids]
          [] OTHER ->
                [id |-> i, type |-> "Div", x |-> 300 * i, y |-> 0, width |-> 240,
                 height |-> 140, background |-> "#ffffff", children |-> kids]

InitCards ==
    \E n \in 2..MaxCardNodes : \E ks \in [1..n -> CardKinds] :
        StartList([i \in 1..n |-> CardNode(i, ks[i])])

NextCards == GroupSimilarNodes

SpecCards == InitCards /\ [][NextCards]_vars

----------------------------------------------------------------------------
(* App.tsx and components/CSSInspector.tsx: the handlers of the application *)

\* { ...existingNode, ...updates }
Merge(existingNode, updates) ==
    [key \in DOMAIN existingNode \cup DOMAIN updates |->
        IF key \in DOMAIN updates THEN updates[key] ELSE existingNode[key]]

\* the map with the updates merged into every entry
handleUpdateNode_all(prevNodeMap, id, updates) ==
    [p \in 1..Len(prevNodeMap) |-> Merge(prevNodeMap[p], updates)]

\* the map that the updater handed to setNodeMap returns
handleUpdateNode(prevNodeMap, id, updates) ==
    IF MapHas(prevNodeMap, id)
    THEN [p \in 1..Len(prevNodeMap) |->
             IF prevNodeMap[p].id = id THEN Merge(prevNodeMap[p], updates)
             ELSE prevNodeMap[p]]
    ELSE prevNodeMap

\* selectedId ? nodeMap.get(selectedId) || null : null, as a list of at most
\* one node
selectedNode(nm, id) ==
    IF id # NoId /\ MapHas(nm, id) THEN <<MapGet(nm, id)>> ELSE <<>>

\* the Map built from the groups: `${group.pattern}-${index + 1}` -> node ids
componentsMap(clusters) ==
    [k \in 1..Len(clusters) |->
        [name |-> identifyPattern(clusters[k]) \o "-" \o ToString(k),
         nodeIds |-> [j \in 1..Len(clusters[k]) |-> clusters[k][j].id]]]

\* A text typed into a width or height field is a sequence of characters.
\* value.replace('px', ''): the first occurrence of 'px' is removed
replacePx(value) ==
    LET found == {i \in 1..(Len(value) - 1) : value[i] = "p" /\ value[i + 1] = "x"}
    IN  IF found = {} THEN value
        ELSE LET i == CHOOSE j \in found : \A k \in found : j <= k
             IN  SubSeq(value, 1, i - 1) \o SubSeq(value, i + 2, Len(value))

RECURSIVE trimStart(_)
trimStart(text) ==
    IF text # <<>> /\ text[1] = " " THEN trimStart(Tail(text)) ELSE text

HexDigits ==
    <<"0", "1", "2", "3", "4", "5", "6", "7", "8", "9", "a", "b", "c", "d", "e", "f">>

\* the value of a character as a digit of this radix, or -1
DigitOf(c, radix) ==
    LET at == {d \in 1..radix : HexDigits[d] = c}
    IN  IF at = {} THEN -1 ELSE (CHOOSE d \in at : TRUE) - 1

\* the number read from the longest prefix of digits, given the digits read so far
RECURSIVE readDigits(_, _, _)
readDigits(text, radix, acc) ==
    IF text = <<>> \/ DigitOf(text[1], radix) < 0 THEN acc
    ELSE readDigits(Tail(text), radix, acc * radix + DigitOf(text[1], radix))

\* parseInt(text) without a radix: leading spaces and one sign are skipped, a 0x
\* prefix selects radix 16, the longest prefix of digits is read; NaN when there
\* is no digit
parseInt(text) ==
    LET trimmed == trimStart(text)
        signed == trimmed # <<>> /\ trimmed[1] \in {"-", "+"}
        sign == IF signed /\ trimmed[1] = "-" THEN -1 ELSE 1
        unsigned == IF signed THEN Tail(trimmed) ELSE trimmed
        hex == Len(unsigned) >= 2 /\ unsigned[1] = "0" /\ unsigned[2] = "x"
        radix == IF hex THEN 16 ELSE 10
        digits == IF hex THEN SubSeq(unsigned, 3, Len(unsigned)) ELSE unsigned
    IN  IF digits = <<>> \/ DigitOf(digits[1], radix) < 0
        THEN [NaN |-> TRUE, value |-> 0]
        ELSE [NaN |-> FALSE, value |-> sign * readDigits(digits, radix, 0)]

\* parseInt(value.replace('px', '')) || 0
numValue(value) ==
    LET parsed == parseInt(replacePx(value))
    IN  IF parsed.NaN \/ parsed.value = 0 THEN 0 ELSE parsed.value

\* the updates handlePropertyChange hands to onUpdateNode
propertyUpdates(property, value) ==
    CASE property = "width" -> [width |-> numValue(value)]
      [] property = "height" -> [height |-> numValue(value)]
      [] property = "background" -> [background |-> value]
      [] property = "margin" -> [margin |-> value]

\* the first render: the maps of the mock data, nothing selected, and the
\* components computed from the mock data
Mount(mockData) ==
    /\ pc = "mounted"
    /\ root = mockData
    /\ nodeMap = convertToOptimizedStructure(mockData).nodeMap
    /\ treeData = convertToOptimizedStructure(mockData).treeData
    /\ candidates = <<>>
    /\ detected = <<>>
    /\ nodes = <<>>
    /\ groups = <<>>
    /\ groups2 = <<>>
    /\ sim = <<>>
    /\ selectedId = NoId
    /\ components = componentsMap(similarClusters(flattenNodeTree(mockData)))

\* handleSelection(id), called by the tree view and the preview
HandleSelection(id) ==
    /\ selectedId' = IF id = NoId THEN NoId ELSE id
    /\ pc' = "selected"
    /\ UNCHANGED <<root, nodeMap, treeData, candidates, detected, nodes, groups, groups2,
                   sim, components>>

\* handleUpdateNode(id, updates) and the render that follows setNodeMap: treeData
\* and components are memoized with an empty dependency list
HandleUpdateNode(id, updates) ==
    /\ nodeMap' = handleUpdateNode(nodeMap, id, updates)
    /\ pc' = "updated"
    /\ UNCHANGED <<root, treeData, candidates, detected, nodes, groups, groups2, sim,
                   selectedId, components>>

\* handlePropertyChange(property, value) of the inspector, which is rendered for
\* a selected node only
HandlePropertyChange(property, value) ==
    /\ selectedNode(nodeMap, selectedId) # <<>>
    /\ HandleUpdateNode(selectedNode(nodeMap, selectedId)[1].id,
                        propertyUpdates(property, value))

----------------------------------------------------------------------------
(* The application: nodes are selected and their width and height edited *)

\* the texts typed into the width and height fields
AppTexts == {<<"0">>, <<"0", "p", "x">>}

InitApp ==
    \E n \in 1..MaxAppNodes : \E parent \in Shapes(n) :
        \E ks \in [Leaves(parent) -> Kinds] : Mount(SimTree(n, parent, ks))

NextApp ==
    \/ \E id \in KeysIn(nodeMap) \cup {NoId} : HandleSelection(id)
    \/ \E property \in {"width", "height"} : \E value \in AppTexts :
          HandlePropertyChange(property, value)

SpecApp == InitApp /\ [][NextApp]_vars

----------------------------------------------------------------------------
(* The inspector: any short text is typed into the fields of a selected node *)

TypedCharacters == {"1", "-", "p", "x", " "}

\* the texts of at most MaxTextLen characters
TypedTexts == UNION {[1..n -> TypedCharacters] : n \in 0..MaxTextLen}

\* a Button of 100 by 40
InspectorMockData ==
    [id |-> 1, type |-> "Button", x |-> 10, y |-> 20, width |-> 100, height |-> 40,
     background |-> "#3b82f6", color |-> "#ffffff", border |-> "1px solid #059669",
     children |-> <<>>]

InitInspector == Mount(InspectorMockData)

NextInspector ==
    \/ \E id \in KeysIn(nodeMap) \cup {NoId} : HandleSelection(id)
    \/ \E property \in {"width", "height"} : \E value \in TypedTexts :
          HandlePropertyChange(property, value)
    \/ HandlePropertyChange("background", "")

SpecInspector == InitInspector /\ [][NextInspector]_vars

----------------------------------------------------------------------------
(* handleUpdateNode called with the id of a node or with an id of no node *)

UpdateIds == 0..MaxUpdateNodes

Updates ==
    {[width |-> 0], [background |-> "#ff0000"], [margin |-> "", height |-> 50]}

InitUpdate ==
    \E n \in 1..MaxUpdateNodes : \E parent \in Shapes(n) :
        \E ks \in [Leaves(parent) -> Kinds] : Mount(SimTree(n, parent, ks))

NextUpdate == \E id \in UpdateIds : \E updates \in Updates : HandleUpdateNode(id, updates)

SpecUpdate == InitUpdate /\ [][NextUpdate]_vars

----------------------------------------------------------------------------
(* The grouper on a list of two trees: the roots are Divs or Images, the other *)
(* nodes Divs of one size, and the second root may have a text              *)

SeedTree(parent, type, titled) ==
    LET tree == TreeOf(parent, [i \in 1..Len(parent) |->
                    IF i = 1 THEN [type |-> type, width |-> 240, height |-> 140]
                    ELSE Container])
    IN  IF titled THEN Merge(tree, [text |-> "Save"]) ELSE tree

InitSeeds ==
    \E n1, n2 \in 1..MaxSeedNodes : \E parent1 \in Shapes(n1), parent2 \in Shapes(n2) :
        \E type1, type2 \in {"Div", "Image"} : \E titled \in BOOLEAN :
            StartList(<<SeedTree(parent1, type1, FALSE),
                        Reid(SeedTree(parent2, type2, titled), 10)>>)

NextSeeds == GroupSimilarNodes

SpecSeeds == InitSeeds /\ [][NextSeeds]_vars

----------------------------------------------------------------------------
(* The scorer on a pair of nodes of any types, sizes (zero included) and texts *)

UnitWidths == {0, 100, 120, 999}

UnitHeights == {0, 40}

UnitTexts == {undefined, "Save", "Item 1"}

\* a node with n childless Div children
UnitNode(id, type, width, height, text, n) ==
    LET kids == [k \in 1..n |->
                    [id |-> id + k, type |-> "Div", x |-> 0, y |-> 0, width |-> 60,
                     height |-> 20, children |-> <<>>]]
    IN  IF text = undefined
        THEN [id |-> id, type |-> type, x |-> 0, y |-> 0, width |-> width,
              height |-> height, children |-> kids]
        ELSE [id |-> id, type |-> type, x |-> 0, y |-> 0, width |-> width,
              height |-> height, text |-> text, children |-> kids]

InitUnit ==
    \E type1, type2 \in {"Div", "Button", "Input", "Image"} :
        \E width1, width2 \in UnitWidths : \E height1, height2 \in UnitHeights :
            \E text1, text2 \in UnitTexts : \E n1, n2 \in 0..MaxUnitChildren :
                StartList(<<UnitNode(1, type1, width1, height1, text1, n1),
                            UnitNode(11, type2, width2, height2, text2, n2)>>)

NextUnit == Score

SpecUnit == InitUnit /\ [][NextUnit]_vars

----------------------------------------------------------------------------
(* Properties of detectComponents *)

DetectDone == pc \in {"detected", "grouped"}

Members(c) == {c.nodeIds[j] : j \in 1..Len(c.nodeIds)}

\* the ids of the nodes that list id among their children
ParentsOf(id) ==
    {treeData[p].id : p \in {q \in 1..Len(treeData) : includes(treeData[q].children, id)}}

DescendantsOf(id) ==
    LET d == getAllDescendants(treeData, id) IN {d[k] : k \in 1..Len(d)}

InResult(c) == \E g \in 1..Len(detected) : detected[g].nodeIds = c.nodeIds

\* the index in nodeMap's iteration order of the first node of the group
FirstMet(c) ==
    CHOOSE p \in 1..Len(nodeMap) :
        /\ nodeMap[p].id \in Members(c)
        /\ \A q \in 1..(p - 1) : nodeMap[q].id \notin Members(c)

\* member m of raw candidate i has a direct parent in a different raw candidate
Covered(i, m) ==
    \E k \in 1..Len(candidates) : k # i /\ ParentsOf(m) \cap Members(candidates[k]) # {}

\* C1: a raw candidate is in the result exactly when one of its members has no
\* direct parent that is a member of a different raw candidate, and the result
\* holds nothing but raw candidates
C1_SurvivesIffIndependent ==
    DetectDone =>
        /\ \A i \in 1..Len(candidates) :
              InResult(candidates[i]) <=> (\E m \in Members(candidates[i]) : ~Covered(i, m))
        /\ \A g \in 1..Len(detected) :
              \E i \in 1..Len(candidates) : candidates[i].nodeIds = detected[g].nodeIds

\* two cards of one signature, each holding a button of one signature: the
\* buttons are a raw candidate and only the card group is returned
C1_Witness ==
    /\ DetectDone
    /\ Len(candidates) = 2
    /\ Len(detected) = 1
    /\ \E i \in 1..2 :
          /\ ~InResult(candidates[i])
          /\ \A m \in Members(candidates[i]) : Covered(i, m)
          /\ \A m \in Members(candidates[i]) : MapGet(nodeMap, m).type = "Button"

\* C2: no member of a returned group has a parent that is a member of a
\* different returned group
C2_NoChildOfReturnedParent ==
    DetectDone =>
        \A g \in 1..Len(detected) : \A m \in Members(detected[g]) :
            ~\E h \in 1..Len(detected) :
                h # g /\ ParentsOf(m) \cap Members(detected[h]) # {}

\* C3: a raw candidate whose members are all proper descendants, at any depth,
\* of members of other raw candidates is not in the result
C3_DescendantsSuppressed ==
    DetectDone =>
        \A i \in 1..Len(candidates) :
            (\A m \in Members(candidates[i]) :
                \E k \in 1..Len(candidates) :
                    k # i /\ \E a \in Members(candidates[k]) : m \in DescendantsOf(a))
            => ~InResult(candidates[i])

C14_GroupsDisjoint ==
    DetectDone =>
        /\ \A g, h \in 1..Len(detected) :
              g # h => Members(detected[g]) \cap Members(detected[h]) = {}
        /\ \A g \in 1..Len(detected) :
              \A j, k \in 1..Len(detected[g].nodeIds) :
                  j # k => detected[g].nodeIds[j] # detected[g].nodeIds[k]

\* the result holds two groups, one of them with a member whose parent is a
\* member of the other
C14_Witness ==
    /\ DetectDone
    /\ Len(detected) >= 2
    /\ \E g, h \in 1..Len(detected) :
          g # h /\ \E m \in Members(detected[g]) :
                      ParentsOf(m) \cap Members(detected[h]) # {}

\* the nodes of the subtree of a node, the node included
RECURSIVE NodesOf(_)
NodesOf(node) ==
    {node} \cup UNION {NodesOf(node.children[k]) : k \in 1..Len(node.children)}

KeysOf(m) == {m[p].id : p \in 1..Len(m)}

\* C15: nodeMap and treeData have the same keys, the ids reachable from the
\* root, each once; treeData lists each node's child ids in the original order
\* and nodeMap keeps each node's attributes with the children list emptied
C15_MapsMirrorTree ==
    pc # "start" =>
        /\ KeysOf(nodeMap) = {n.id : n \in NodesOf(root)}
        /\ KeysOf(treeData) = KeysOf(nodeMap)
        /\ Len(nodeMap) = Cardinality(KeysOf(nodeMap))
        /\ Len(treeData) = Cardinality(KeysOf(treeData))
        /\ \A n \in NodesOf(root) :
              /\ MapGet(treeData, n.id)
                    = [id |-> n.id,
                       children |-> [k \in 1..Len(n.children) |-> n.children[k].id]]
              /\ MapGet(nodeMap, n.id) = [n EXCEPT !.children = <<>>]

\* the maps of a tree in which a node with a background has two children of
\* different kinds, one of them with a child of its own
C15_Witness ==
    /\ pc = "converted"
    /\ \E n \in NodesOf(root) :
          /\ Truthy(Get(n, "background"))
          /\ Len(n.children) >= 2
          /\ n.children[1].type # n.children[2].type
          /\ \E k \in 1..Len(n.children) : Len(n.children[k].children) > 0
          /\ Len(MapGet(treeData, n.id).children) = Len(n.children)

----------------------------------------------------------------------------
(* Properties of the signature buckets, under SpecSig *)

NodeIds == {nodeMap[p].id : p \in 1..Len(nodeMap)}

\* two different nodes share a bucket exactly when they share a raw candidate
SameBucket(a, b) ==
    \E i \in 1..Len(candidates) : a \in Members(candidates[i]) /\ b \in Members(candidates[i])

KindOf(id) ==
    <<MapGet(nodeMap, id).type, MapGet(nodeMap, id).width, MapGet(nodeMap, id).height>>

ChildKinds(id) ==
    [j \in 1..Len(MapGet(treeData, id).children) |-> KindOf(MapGet(treeData, id).children[j])]

\* how many children of id are of this kind
ChildCount(id, kind) ==
    Cardinality({j \in 1..Len(ChildKinds(id)) : ChildKinds(id)[j] = kind})

SameChildMultiset(a, b) ==
    \A kind \in {KindOf(c) : c \in NodeIds} : ChildCount(a, kind) = ChildCount(b, kind)

\* C7: two nodes are in the same signature bucket exactly when they agree on
\* type, width and height and on the multiset of their children's (type, width,
\* height); nothing else enters the signature
C7_SignatureIsKindAndChildMultiset ==
    DetectDone =>
        \A a, b \in NodeIds :
            a # b =>
                (SameBucket(a, b) <=> (KindOf(a) = KindOf(b) /\ SameChildMultiset(a, b)))

\* two nodes share a bucket although their children come in another order,
\* one of them has a background and a grandchild and the other has neither
C7_Witness ==
    /\ DetectDone
    /\ \E a, b \in NodeIds :
          /\ a # b
          /\ SameBucket(a, b)
          /\ ChildKinds(a) # ChildKinds(b)
          /\ Get(MapGet(nodeMap, a), "background") # Get(MapGet(nodeMap, b), "background")
          /\ MapGet(nodeMap, a).x # MapGet(nodeMap, b).x
          /\ Len(getAllDescendants(treeData, a)) # Len(getAllDescendants(treeData, b))

----------------------------------------------------------------------------
(* Properties of both pipelines, under SpecEngine *)

GroupDone == pc = "grouped"

\* C6: every group returned by detectComponents and every group returned by
\* groupSimilarNodes has at least 2 members
C6_NoSingletonGroup ==
    /\ DetectDone => \A g \in 1..Len(detected) : Len(detected[g].nodeIds) >= 2
    /\ GroupDone => \A g \in 1..Len(groups) : Len(groups[g].nodes) >= 2

\* both pipelines returned groups for a tree that also has a node of a
\* signature of its own and a node that no seed collected
C6_Witness ==
    /\ GroupDone
    /\ Len(detected) >= 1
    /\ Len(groups) >= 1
    /\ \E id \in NodeIds : \A g \in 1..Len(detected) : id \notin Members(detected[g])
    /\ \E i \in 1..Len(nodes) :
          \A g \in 1..Len(groups) : \A k \in 1..Len(groups[g].nodes) :
              groups[g].nodes[k].id # nodes[i].id

----------------------------------------------------------------------------
(* Properties of the scorer, under SpecSim *)

\* C4: calculateSimilarity(a, b) equals calculateSimilarity(b, a) for every pair
\* of nodes, whatever their types and child lists
C4_SimilaritySymmetric ==
    pc = "scored" => sim.ab = sim.ba

----------------------------------------------------------------------------
(* Properties of the grouper, under SpecGroup *)

GroupedTwice == pc = "regrouped"

C9_CommonStyleOnEveryMember ==
    pc \in {"grouped", "regrouped"} =>
        \A g \in 1..Len(groups) :
            \A prop \in DOMAIN groups[g].commonFeatures.styleProperties :
                \A k \in 1..Len(groups[g].nodes) :
                    /\ Truthy(Get(groups[g].nodes[k], prop))
                    /\ Get(groups[g].nodes[k], prop)
                          = groups[g].commonFeatures.styleProperties[prop]

\* all members are Divs with at least one child and a background
CardLike(ns) ==
    \A k \in 1..Len(ns) :
        ns[k].type = "Div" /\ Len(ns[k].children) >= 1 /\ Truthy(Get(ns[k], "background"))

\* C10: a group that is neither a Button group nor a Card-like group has no
\* variations
C10_NoVariationsForOtherGroups ==
    pc \in {"grouped", "regrouped"} =>
        \A g \in 1..Len(groups) :
            (groups[g].nodes[1].type # "Button" /\ ~CardLike(groups[g].nodes))
                => groups[g].variations = <<>>

----------------------------------------------------------------------------
(* Properties of the calls on edge inputs, under SpecEdge *)

\* the ids listed as a child in treeData that have no nodeMap entry
ChildWithoutNode ==
    {id \in UNION {{treeData[p].children[k] : k \in 1..Len(treeData[p].children)} :
                      p \in 1..Len(treeData)} : ~MapHas(nodeMap, id)}

\* the ids of nodeMap that have no treeData entry
NodeWithoutTreeEntry ==
    {nodeMap[p].id : p \in {q \in 1..Len(nodeMap) : ~MapHas(treeData, nodeMap[q].id)}}

\* C12: when an id is listed as a child in treeData but absent from nodeMap, or
\* a nodeMap id has no treeData entry, detectComponents completes without
\* throwing and the missing node is in no group of the result
C12_MissingNodeSkipped ==
    (ChildWithoutNode # {} \/ NodeWithoutTreeEntry # {}) =>
        /\ pc # "threw"
        /\ pc \in {"detected", "grouped"} =>
              \A g \in 1..Len(detected) : Members(detected[g]) \cap ChildWithoutNode = {}

\* C13: detectComponents on empty maps or on the maps of a single-node tree,
\* and groupSimilarNodes on an empty or one-element list, return an empty
\* result and raise no error
C13_EmptyResultOnTinyInput ==
    /\ (Len(nodeMap) <= 1 /\ Len(treeData) = Len(nodeMap) /\ NodeWithoutTreeEntry = {}
        /\ ChildWithoutNode = {})
          => (pc # "threw" /\ detected = <<>>)
    /\ (pc = "grouped" /\ Len(nodes) <= 1) => groups = <<>>

\* both calls have returned, empty-handed, for empty maps and an empty list
C13_Witness ==
    /\ pc = "grouped"
    /\ nodeMap = <<>> /\ treeData = <<>> /\ nodes = <<>>
    /\ detected = <<>> /\ groups = <<>>

----------------------------------------------------------------------------
(* Properties of the scorer on identical nodes, under SpecTwin *)

\* C16: the similarity of two Buttons that are identical in every attribute and
\* in their subtrees, and differ in the ids only, is greater than 0.9, whatever
\* number of children they have
C16_IdenticalButtonsOverNineTenths ==
    (pc = "scored" /\ nodes[1].type = "Button") => RLess(Rat(9, 10), sim.ab)

----------------------------------------------------------------------------
(* Properties of the variations of Button groups, under SpecButtons *)

ButtonGroups == {g \in 1..Len(groups) : groups[g].nodes[1].type = "Button"}

\* the style variations of a group: those that are not icon variations
StyleVariations(g) ==
    SelectSeq(groups[g].variations,
              LAMBDA v : v.type \notin {"With Icon", "Without Icon"})

IdsIn(ns) == {ns[k].id : k \in 1..Len(ns)}

\* the example lists of these variations partition the members of the group
Partition(vs, g) ==
    /\ \A v \in 1..Len(vs) :
          /\ IdsIn(vs[v].examples) \subseteq IdsIn(groups[g].nodes)
          /\ Len(vs[v].examples) = Cardinality(IdsIn(vs[v].examples))
    /\ \A id \in IdsIn(groups[g].nodes) :
          Cardinality({v \in 1..Len(vs) : id \in IdsIn(vs[v].examples)}) = 1

\* the fixed names of the colours
VariantName(background) ==
    CASE background = "#007bff" -> "Primary"
      [] background = "#6c757d" -> "Secondary"
      [] background = "transparent" -> "Outline"
      [] background = "#dc3545" -> "Danger"
      [] background = "#28a745" -> "Success"
      [] background = "#ffc107" -> "Warning"
      [] OTHER -> "Custom"

\* one style variation per value of key among the members, none when there is
\* one value only; the variations partition the group and carry the value's name
OneVariationPerValue(g, key(_)) ==
    LET values == {key(groups[g].nodes[k]) : k \in 1..Len(groups[g].nodes)}
        vs == StyleVariations(g)
    IN  IF Cardinality(values) > 1
        THEN /\ Len(vs) = Cardinality(values)
             /\ Partition(vs, g)
             /\ \A v \in 1..Len(vs) :
                   \E b \in values :
                       /\ \A k \in 1..Len(vs[v].examples) : key(vs[v].examples[k]) = b
                       /\ vs[v].type = VariantName(b)
        ELSE vs = <<>>

\* the background as it is, a missing one being one value
BackgroundValue(n) == Get(n, "background")

\* the background, with a missing one, the empty string and 'default' being
\* one value
BackgroundKey(n) ==
    IF Truthy(Get(n, "background")) THEN n.background ELSE "default"

WithImageChild(g) ==
    {groups[g].nodes[k].id : k \in
        {j \in 1..Len(groups[g].nodes) :
            \E c \in 1..Len(groups[g].nodes[j].children) :
                groups[g].nodes[j].children[c].type = "Image"}}

VariationsOfType(g, type) == SelectSeq(groups[g].variations, LAMBDA v : v.type = type)

\* C18: a Button group gets the variations 'With Icon' and 'Without Icon'
\* exactly when it has a member with a direct Image child and a member without
\* one; their example lists are then these two sets of members
C18_IconVariationsIffMixed ==
    pc = "grouped" =>
        \A g \in ButtonGroups :
            LET with == WithImageChild(g)
                without == IdsIn(groups[g].nodes) \ with
                withIcon == VariationsOfType(g, "With Icon")
                withoutIcon == VariationsOfType(g, "Without Icon")
            IN  IF with # {} /\ without # {}
                THEN /\ Len(withIcon) = 1 /\ Len(withoutIcon) = 1
                     /\ IdsIn(withIcon[1].examples) = with
                     /\ IdsIn(withoutIcon[1].examples) = without
                     /\ Len(withIcon[1].examples) + Len(withoutIcon[1].examples)
                           = Len(groups[g].nodes)
                ELSE withIcon = <<>> /\ withoutIcon = <<>>

\* two Buttons that differ only in that one has a single Image child are one
\* group whose only variations are With Icon and Without Icon, one example each
C18_Witness ==
    /\ pc = "grouped"
    /\ Len(nodes) = 2
    /\ Len(nodes[1].children) + Len(nodes[2].children) = 1
    /\ BackgroundValue(nodes[1]) = BackgroundValue(nodes[2])
    /\ Len(groups) = 1
    /\ IdsIn(groups[1].nodes) = {1, 2}
    /\ Cardinality(WithImageChild(1)) = 1
    /\ Len(groups[1].variations) = 2
    /\ groups[1].variations[1].type = "With Icon"
    /\ Len(groups[1].variations[1].examples) = 1
    /\ groups[1].variations[2].type = "Without Icon"
    /\ Len(groups[1].variations[2].examples) = 1

----------------------------------------------------------------------------
(* Properties of card groups and of the pattern labels, under SpecCards *)

CardGroups == {g \in 1..Len(groups) : CardLike(groups[g].nodes)}

\* a direct child with a background whose width and height are each strictly
\* less than 30% of the parent's
IsBadgeOf(child, parent) ==
    /\ Truthy(Get(child, "background"))
    /\ 10 * child.width < 3 * parent.width
    /\ 10 * child.height < 3 * parent.height

\* the members of a group that have a badge child
WithBadgeChild(g) ==
    {groups[g].nodes[k].id : k \in
        {j \in 1..Len(groups[g].nodes) :
            \E c \in 1..Len(groups[g].nodes[j].children) :
                IsBadgeOf(groups[g].nodes[j].children[c], groups[g].nodes[j])}}

\* a group of card-like Divs has the variations With Badge and Without Badge
\* exactly when it has a member with a badge child and a member without one;
\* their example lists are then these two sets of members
BadgeVariationsIffMixed ==
    \A g \in CardGroups :
        LET with == WithBadgeChild(g)
            without == IdsIn(groups[g].nodes) \ with
            withBadge == VariationsOfType(g, "With Badge")
            withoutBadge == VariationsOfType(g, "Without Badge")
        IN  IF with # {} /\ without # {}
            THEN /\ groups[g].variations = withBadge \o withoutBadge
                 /\ Len(withBadge) = 1 /\ Len(withoutBadge) = 1
                 /\ IdsIn(withBadge[1].examples) = with
                 /\ IdsIn(withoutBadge[1].examples) = without
                 /\ Len(withBadge[1].examples) + Len(withoutBadge[1].examples)
                       = Len(groups[g].nodes)
            ELSE groups[g].variations = <<>>

\* what a child is, its id and position aside
Look(child) == [child EXCEPT !.id = 0, !.x = 0, !.y = 0]

\* b is the card a with one more child, a badge, after a's children
CardPlusBadge(a, b) ==
    /\ CardLike(<<a, b>>)
    /\ [a EXCEPT !.id = 0, !.x = 0, !.children = <<>>]
          = [b EXCEPT !.id = 0, !.x = 0, !.children = <<>>]
    /\ Len(b.children) = Len(a.children) + 1
    /\ \A k \in 1..Len(a.children) :
          /\ Look(a.children[k]) = Look(b.children[k])
          /\ ~IsBadgeOf(a.children[k], a)
    /\ IsBadgeOf(b.children[Len(b.children)], b)

InOneCardGroup(a, b) ==
    \E g \in 1..Len(groups) :
        groups[g].pattern = "Card" /\ {a.id, b.id} \subseteq IdsIn(groups[g].nodes)

InOneGroup(a, b) ==
    \E g \in 1..Len(groups) : {a.id, b.id} \subseteq IdsIn(groups[g].nodes)

C20_PatternLabel ==
    pc = "grouped" =>
        \A g \in 1..Len(groups) :
            groups[g].pattern =
                IF CardLike(groups[g].nodes) THEN "Card"
                ELSE CASE groups[g].nodes[1].type = "Button" -> "Button"
                       [] groups[g].nodes[1].type = "Input" -> "Input Field"
                       [] groups[g].nodes[1].type = "Image" -> "Image"
                       [] groups[g].nodes[1].type = "Div" -> "Custom Component"

\* a group of Divs with children, of which one has the empty string as
\* background and another a colour, is labelled Custom Component
C20_Witness ==
    /\ pc = "grouped"
    /\ \E g \in 1..Len(groups) :
          /\ groups[g].pattern = "Custom Component"
          /\ \A k \in 1..Len(groups[g].nodes) :
                groups[g].nodes[k].type = "Div" /\ Len(groups[g].nodes[k].children) > 0
          /\ \E k \in 1..Len(groups[g].nodes) : groups[g].nodes[k].background = ""
          /\ \E k \in 1..Len(groups[g].nodes) : groups[g].nodes[k].background # ""

----------------------------------------------------------------------------
(* Properties of the application, under SpecApp *)

\* the tree that nodeMap and treeData stand for, from this node down
RECURSIVE treeOfMaps(_, _, _)
treeOfMaps(nm, td, id) ==
    LET childIds == MapGet(td, id).children
    IN  [MapGet(nm, id) EXCEPT
            !.children = [k \in 1..Len(childIds) |-> treeOfMaps(nm, td, childIds[k])]]

\* the components the engine computes from the node data as edited so far
ComponentsOfEditedData ==
    componentsMap(similarClusters(
        flattenNodeTree(treeOfMaps(nodeMap, treeData, nodeMap[1].id))))

----------------------------------------------------------------------------
(* Properties of the clustering loop, under SpecGroup and SpecSeeds *)

Grouped == pc \in {"grouped", "regrouped"}

\* the base threshold, raised by the increment for a Div without children
Threshold(n) ==
    IF n.type = "Div" /\ n.children = <<>>
    THEN Rat(SIMILARITY_THRESHOLD + CHILDLESS_DIV_THRESHOLD_INCREASE, 100)
    ELSE Rat(SIMILARITY_THRESHOLD, 100)

\* the score of b against a reaches the higher of their two thresholds
SimilarTo(a, b) == RLeq(RMax(Threshold(a), Threshold(b)), calculateSimilarity(a, b))

\* C22: in every group the first member is the seed, and every other member
\* scores against the seed at least the higher of the seed's and its own
\* threshold
C22_MembersSimilarToSeed ==
    Grouped =>
        \A g \in 1..Len(groups) :
            \A k \in 2..Len(groups[g].nodes) :
                SimilarTo(groups[g].nodes[1], groups[g].nodes[k])

\* a group of three whose seed scores less than 1, and no less than the
\* threshold, against each of the two members it collected
C22_Witness ==
    /\ Grouped
    /\ \E g \in 1..Len(groups) :
          /\ Len(groups[g].nodes) = 3
          /\ \A k \in 2..3 :
                /\ SimilarTo(groups[g].nodes[1], groups[g].nodes[k])
                /\ RLess(calculateSimilarity(groups[g].nodes[1], groups[g].nodes[k]),
                         RInt(1))

\* the position of a node in the input list
PositionOf(n) == CHOOSE i \in 1..Len(nodes) : nodes[i].id = n.id

\* C23: in every group the seed precedes all other members in the input list
C23_SeedPrecedesMembers ==
    Grouped =>
        \A g \in 1..Len(groups) :
            \A k \in 2..Len(groups[g].nodes) :
                PositionOf(groups[g].nodes[1]) < PositionOf(groups[g].nodes[k])

----------------------------------------------------------------------------
(* Properties of the scorer on nodes of any size, under SpecUnit *)

InUnitInterval(r) == RLeq(RInt(0), r) /\ RLeq(r, RInt(1))

\* C24: for every pair of nodes with non-negative width and height, the total
\* similarity and each of the structural, layout, style and content scores are
\* in [0, 1]
C24_ScoresInUnitInterval ==
    (pc = "scored" /\ \A i \in 1..2 : nodes[i].width >= 0 /\ nodes[i].height >= 0) =>
        /\ InUnitInterval(sim.ab)
        /\ InUnitInterval(sim.ba)
        /\ InUnitInterval(calculateStructuralSimilarity(nodes[1], nodes[2]))
        /\ InUnitInterval(calculateLayoutSimilarity(nodes[1], nodes[2]))
        /\ InUnitInterval(calculateStyleSimilarity(nodes[1], nodes[2]))
        /\ InUnitInterval(calculateContentSimilarity(nodes[1], nodes[2]))

\* a node of width 0 scored against a node of width 999 of the same type: the
\* layout score is clamped at 0 and the total lies strictly between 0 and 1
C24_Witness ==
    /\ pc = "scored"
    /\ nodes[1].type = nodes[2].type
    /\ nodes[1].width = 0 /\ nodes[2].width = 999
    /\ nodes[1].height = 0 /\ nodes[2].height = 40
    /\ calculateLayoutSimilarity(nodes[1], nodes[2]) = RInt(0)
    /\ RLess(RInt(0), sim.ab) /\ RLess(sim.ab, RInt(1))

----------------------------------------------------------------------------
(* Properties of the inspector's edits, under SpecInspector *)

\* C25: after any sequence of edits of the width or height property in the
\* inspector, the stored width and height of every node are non-negative
C25_DimensionsNonNegative ==
    \A p \in 1..Len(nodeMap) : nodeMap[p].width >= 0 /\ nodeMap[p].height >= 0

----------------------------------------------------------------------------
(* Properties of handleUpdateNode, under SpecUpdate *)

\* after holds the updates' values under the updates' keys and the values of
\* before under every other key
Merged(before, after, updates) ==
    /\ DOMAIN after = DOMAIN before \cup DOMAIN updates
    /\ \A key \in DOMAIN after :
          after[key] = IF key \in DOMAIN updates THEN updates[key] ELSE before[key]

\* the step is a call with these arguments: only the entry for id changes
UpdateEffect(id, updates) ==
    /\ treeData' = treeData
    /\ Len(nodeMap') = Len(nodeMap)
    /\ \A p \in 1..Len(nodeMap) :
          IF nodeMap[p].id = id
          THEN Merged(nodeMap[p], nodeMap'[p], updates)
          ELSE nodeMap'[p] = nodeMap[p]

\* C26: handleUpdateNode(id, updates) merges the updates into the nodeMap entry
\* for id and leaves every other entry and treeData unchanged; when id is no key
\* of nodeMap the contents of the map stay as they are
C26_UpdateTouchesOneEntry ==
    [][\E id \in UpdateIds : \E updates \in Updates : UpdateEffect(id, updates)]_vars

\* a map of two entries after updates: one entry is as it was converted, the
\* other has got a property it did not have and has kept its type and its id
C26_Witness ==
    /\ pc = "updated"
    /\ Len(nodeMap) = 2
    /\ \E p, q \in 1..2 :
          /\ nodeMap[p] = convertToOptimizedStructure(root).nodeMap[p]
          /\ "margin" \in DOMAIN nodeMap[q]
          /\ nodeMap[q].height = 50
          /\ nodeMap[q].type = convertToOptimizedStructure(root).nodeMap[q].type
          /\ nodeMap[q].id = q

----------------------------------------------------------------------------
(* Properties of the suppression of nested candidates, under Spec *)

\* the ids of the proper ancestors of a node
AncestorsOf(id) == {a \in KeysOf(treeData) : id \in DescendantsOf(a)}

InSomeResultGroup(id) == \E g \in 1..Len(detected) : id \in Members(detected[g])

\* C27: every member of a suppressed raw candidate has a proper ancestor that
\* is a member of a group of the result; so the result is not empty when there
\* is a raw candidate
C27_SuppressedUnderReturnedAncestor ==
    DetectDone =>
        /\ \A i \in 1..Len(candidates) :
              ~InResult(candidates[i]) =>
                  \A m \in Members(candidates[i]) :
                      \E a \in AncestorsOf(m) : InSomeResultGroup(a)
        /\ Len(candidates) >= 1 => Len(detected) >= 1

\* two raw candidates are suppressed, one of them below the other: no parent
\* of its members is in the result, a grandparent is
C27_Witness ==
    /\ DetectDone
    /\ \E i \in 1..Len(candidates) :
          /\ ~InResult(candidates[i])
          /\ \A m \in Members(candidates[i]) :
                /\ \A q \in ParentsOf(m) : ~InSomeResultGroup(q)
                /\ \E a \in AncestorsOf(m) : InSomeResultGroup(a)

----------------------------------------------------------------------------
(* Properties of the groups of a flattened tree, under SpecEngine *)

\* C28: no node is in two groups returned by groupSimilarNodes, nor twice in
\* one group, the ids of the input list being unique
C28_GroupsShareNoNode ==
    (GroupDone /\ Cardinality(IdsIn(nodes)) = Len(nodes)) =>
        /\ \A g, h \in 1..Len(groups) :
              g # h => IdsIn(groups[g].nodes) \cap IdsIn(groups[h].nodes) = {}
        /\ \A g \in 1..Len(groups) :
              Cardinality(IdsIn(groups[g].nodes)) = Len(groups[g].nodes)

\* two groups were returned, and a member of the second comes before a member
\* of the first in the input list
C28_Witness ==
    /\ GroupDone
    /\ Len(groups) >= 2
    /\ \E j \in 1..Len(groups[1].nodes) : \E k \in 1..Len(groups[2].nodes) :
          PositionOf(groups[2].nodes[k]) < PositionOf(groups[1].nodes[j])

----------------------------------------------------------------------------
(* Properties of the nodes left ungrouped, under SpecGroup *)

Ungrouped(i) == \A g \in 1..Len(groups) : nodes[i].id \notin IdsIn(groups[g].nodes)

\* C29: after groupSimilarNodes has returned there are no two ungrouped nodes
\* a before b in the input list such that b scores against a at least the
\* higher of their thresholds
C29_NoSimilarPairLeftUngrouped ==
    Grouped =>
        \A i, j \in 1..Len(nodes) :
            (i < j /\ Ungrouped(i) /\ Ungrouped(j)) => ~SimilarTo(nodes[i], nodes[j])

\* two cards of the same type, one with one child and one with two, are left
\* ungrouped beside a third node
C29_Witness ==
    /\ Grouped
    /\ Len(nodes) = 3
    /\ groups = <<>>
    /\ \E i, j \in 1..3 :
          /\ i < j
          /\ nodes[i].type = nodes[j].type
          /\ Len(nodes[i].children) # Len(nodes[j].children)
          /\ RLess(Rat(1, 2), calculateSimilarity(nodes[i], nodes[j]))

----------------------------------------------------------------------------
(* Properties of the members of a group, under SpecSeeds *)

\* the depth of the subtree of a node, a node without children having depth 1
RECURSIVE DepthOf(_)
DepthOf(n) ==
    IF n.children = <<>> THEN 1
    ELSE 1 + MaxOf([k \in 1..Len(n.children) |-> DepthOf(n.children[k])])

\* C30: all members of a group have the same type, and all members of a group
\* of Divs or of Images have the same subtree depth
C30_SameTypeAndDepth ==
    Grouped =>
        \A g \in 1..Len(groups) :
            \A j, k \in 1..Len(groups[g].nodes) :
                /\ groups[g].nodes[j].type = groups[g].nodes[k].type
                /\ groups[g].nodes[1].type \in {"Div", "Image"} =>
                      DepthOf(groups[g].nodes[j]) = DepthOf(groups[g].nodes[k])

\* two Images of depth 3 whose trees differ in shape are one group
C30_Witness ==
    /\ Grouped
    /\ Len(groups) = 1
    /\ groups[1].nodes[1].type = "Image"
    /\ DepthOf(groups[1].nodes[1]) = 3
    /\ Len(traverse(groups[1].nodes[1])) # Len(traverse(groups[1].nodes[2]))

====
